---- MODULE Spec2Model ----
(***************************************************************************)
(* A model of the tatutanatata client: the request core and the paginated  *)
(* stream (src/src/client.rs), the session life cycle                      *)
(* (src/src/session.rs) and the key derivation (src/src/crypto/auth.rs).   *)
(*                                                                         *)
(* Three specifications share the variables:                               *)
(*   SpecStream   one stream polled by a consumer against a server that    *)
(*                may answer every page fetch with any response;           *)
(*   SpecSession  callers that log in and log out;                         *)
(*   SpecKdf      derive_passkey applied to every input of a bounded set.  *)
(* Each leaves the variables of the other two at their initial values.     *)
(*                                                                         *)
(* Abstractions.  An HTTP exchange is one step: the request is logged when *)
(* it is sent and the whole response (transport outcome, status, body) is  *)
(* handed to the awaiting future in one later step.  Entity ids are        *)
(* strings ordered by IdRank.  SHA-256 and bcrypt are symbolic: their      *)
(* outputs are sequences of the right length whose bytes name the inputs.  *)
(***************************************************************************)
EXTENDS Integers, Sequences, FiniteSets, TLC

(***************************************************************************)
(* Bounds of the model.                                                    *)
(***************************************************************************)
\* longest page the modelled server returns
MaxPageLen == 2
\* page fetches one stream may issue before the model stops it
MaxFetches == 3
\* longest salt handed to derive_passkey
MaxSaltLen == 17
\* login attempts (Session slots) of SpecSession
MaxSessions == 2

(***************************************************************************)
(* Program constants.                                                      *)
(***************************************************************************)
STREAM_BATCH_SIZE == 1000
GENERATE_ID_BYTES_LENGTH == 9
\* [u8; 16]: the salt length of KdfVersion::Bcrypt
BCRYPT_SALT_LEN == 16
\* bcrypt::bcrypt(8, ...)
BCRYPT_COST == 8
\* hashed[..16]: the bytes of an Aes128 key
AES128_KEY_LEN == 16
\* the bytes bcrypt::bcrypt returns
BCRYPT_OUT_LEN == 24
\* the bytes of a SHA-256 digest
SHA256_OUT_LEN == 32

\* "------------": the cursor a stream starts from
SENTINEL == "------------"

(***************************************************************************)
(* Results (anyhow::Result).  An error is its chain of messages, the       *)
(* outermost context first.                                                *)
(***************************************************************************)
Ok(v) == [ok |-> TRUE, val |-> v, err |-> <<>>]
Err(msg) == [ok |-> FALSE, val |-> <<>>, err |-> <<msg>>]
\* Result::context(msg)
Context(r, msg) == IF r.ok THEN r ELSE [r EXCEPT !.err = <<msg>> \o r.err]


(***************************************************************************)
(* The state.                                                              *)
(***************************************************************************)
VARIABLES
  \* ---- one record of fields per stream (client.rs, Client::stream) ----
  phase,       \* where the stream is: "none" (not created), "idle" (between
               \* two polls), "fetching" (its future awaits do_json), "done"
               \* (try_unfold holds no state and no future), "dropped"
  buffer,      \* StreamState::buffer
  next_start,  \* StreamState::next_start
  outstanding, \* page fetches sent and not yet answered or cancelled
  fetches,     \* the query of every page fetch sent, in order
  answers,     \* what do_json returned for every answered fetch, in order
  yielded,     \* the Ok items the consumer received, in order
  errs,        \* the number of Err items the consumer received
  lastPoll,    \* what the latest poll returned: "none", "pending", "item",
               \* "err", "end"
  polled,      \* whether the consumer has polled the stream at all
  \* ---- one record of fields per login attempt (session.rs) ----
  pc,          \* where the caller is
  life,        \* "NoSession", "Active", "Closed"
  session,     \* the Session value: [user_id, access_token]
  login_res,   \* what Session::login returned
  logout_res,  \* what Session::logout returned
  logouts,     \* the number of calls of Session::logout on the value
  requests,    \* every request sent for the attempt, in order
  replies,     \* the response to every answered request, in order
  \* ---- crypto/auth.rs ----
  kdf_in,      \* the arguments of derive_passkey
  kdf_out,     \* what derive_passkey returned, NoResult before the call
  \* ---- one record of fields per run of main (main.rs) ----
  cmd_res,     \* main's cmd_res, NoResult before exec_cmd returned
  main_res     \* what main returned, NoResult while it runs

stream_vars == <<phase, buffer, next_start, outstanding, fetches, answers,
                 yielded, errs, lastPoll, polled>>
session_vars == <<pc, life, session, login_res, logout_res, logouts, requests,
                  replies>>
kdf_vars == <<kdf_in, kdf_out>>
main_vars == <<cmd_res, main_res>>
vars == <<stream_vars, session_vars, kdf_vars, main_vars>>

NoResult == [ok |-> FALSE, val |-> <<>>, err |-> <<>>]

(***************************************************************************)
(* The request core.  A response is what the server and the network make   *)
(* of one request: whether it arrived at all, its status, its body.        *)
(***************************************************************************)
StatusCodes == {200, 304, 404, 500}
Garbage == [json |-> "garbage", val |-> <<>>]
Json(kind, v) == [json |-> kind, val |-> <<v>>]
Response(arrived, status, body) ==
  [arrived |-> arrived, status |-> status, body |-> body]
\* no response: the connection failed
TransportFailure == Response(FALSE, 0, Garbage)

\* reqwest::Response::error_for_status: a client or server error status
error_for_status(resp) ==
  IF resp.status >= 400 /\ resp.status <= 599
    THEN Err("return status")
    ELSE Ok(resp)

\* Client::do_request, from the response to the one request it sends
do_request(resp) ==
  IF ~resp.arrived
    THEN Err("initial request")
    ELSE error_for_status(resp)

\* Client::do_json::<_, Resp>: kind names the type Resp the body must decode to
do_json(resp, kind) ==
  LET r == do_request(resp)
  IN IF ~r.ok THEN r
     ELSE IF r.val.body.json = kind
       THEN Ok(r.val.body.val[1])
       ELSE Err("fetch JSON response")


(***************************************************************************)
(* The paginated stream: Client::stream.                                   *)
(***************************************************************************)
StreamIds == {1, 2}
EntityIds == {"A", "B"}
\* the order of the ids as strings: '-' sorts before every letter
IdRank(id) == CASE id = SENTINEL -> 0 [] id = "A" -> 1 [] id = "B" -> 2
IdLeq(a, b) == IdRank(a) <= IdRank(b)

\* Option<T>
None == <<>>
Some(v) == <<v>>

PageSet == UNION {[1..n -> EntityIds] : n \in 0..MaxPageLen}
\* what the server may answer a page fetch with
StreamResponses ==
  {TransportFailure, Response(TRUE, 500, Garbage), Response(TRUE, 304, Garbage),
   Response(TRUE, 200, Garbage)}
  \cup {Response(TRUE, 200, Json("entities", p)) : p \in PageSet}

\* the arguments of Client::stream for stream s
StreamPath(s) == IF s = 1 THEN "mailfolder" ELSE "mail"
StreamToken(s) == Some(<<s>>)

\* Base64Url::to_string, as do_request calls it on the token
to_string(access_token) == [to_string |-> access_token]
\* the token never put into a header
HeadersNone(access_token) == <<>>
\* if let Some(access_token) = access_token { req.header("accessToken", ..) }
Headers(access_token) ==
  IF access_token = None
    THEN <<>>
    ELSE << <<"accessToken", to_string(access_token[1])>> >>

\* the request that do_request builds from its arguments
Request(method, prefix, path, data, access_token, query) ==
  [method |-> method, prefix |-> prefix, path |-> path, data |-> data,
   access_token |-> access_token, query |-> query,
   headers |-> Headers(access_token)]

\* the cursor read from a state that all streams share
PageRequestShared(s, start) ==
  Request("GET", "tutanota", StreamPath(s), <<>>, StreamToken(s),
          [start |-> next_start[1], count |-> STREAM_BATCH_SIZE,
           reverse |-> "false"])
\* the request of one page fetch (client.rs 98-109)
PageRequest(s, start) ==
  Request("GET", "tutanota", StreamPath(s), <<>>, StreamToken(s),
          [start |-> start, count |-> STREAM_BATCH_SIZE, reverse |-> "false"])

\* a page shorter than the batch size taken for the last one
PageEndsWhenPartial(page) == Len(page) < STREAM_BATCH_SIZE
\* match state.buffer.back() { None => return Ok(None), ... }
PageEnds(page) == page = <<>>
\* the id of the first entity of the page in place of the last
NextCursorFirst(page) == Head(page)
\* Some(o) => state.next_start = o.id()
NextCursor(page) == page[Len(page)]
\* the next page fetched while the last item is still buffered
PopsBufferEarly(buf) == Len(buf) > 1
\* state.buffer.pop_front() is Some: the item is returned before any fetch
PopsBuffer(buf) == buf # <<>>
\* pop_back in place of pop_front
PopBack(buf) == [item |-> buf[Len(buf)], rest |-> SubSeq(buf, 1, Len(buf) - 1)]
\* VecDeque::pop_front on a buffer that holds an item
PopFront(buf) == [item |-> Head(buf), rest |-> Tail(buf)]
\* unfold in place of try_unfold: the state survives the error
AfterErrorResumes == "idle"
\* try_unfold after its future returned Err: it keeps neither state nor future
AfterError == "done"
\* the first page fetched by Client::stream itself
FetchOnCreateEager == TRUE
\* what a stream sends before it is polled
FetchOnCreate == FALSE

\* Client::stream: the state is built, nothing is sent
Stream(s) ==
  /\ phase[s] = "none"
  /\ phase' = [phase EXCEPT ![s] = "idle"]
  /\ buffer' = [buffer EXCEPT ![s] = <<>>]
  /\ next_start' = [next_start EXCEPT ![s] = SENTINEL]
  /\ fetches' = [fetches EXCEPT ![s] =
                   IF FetchOnCreate THEN <<PageRequest(s, SENTINEL)>> ELSE <<>>]
  /\ outstanding' = [outstanding EXCEPT ![s] = IF FetchOnCreate THEN 1 ELSE 0]
  /\ UNCHANGED <<answers, yielded, errs, lastPoll, polled>>
  /\ UNCHANGED <<session_vars, kdf_vars, main_vars>>

\* a poll that finds an item in the buffer (client.rs 92-94)
PollPop(s) ==
  /\ phase[s] = "idle"
  /\ PopsBuffer(buffer[s])
  /\ yielded' = [yielded EXCEPT ![s] = Append(@, PopFront(buffer[s]).item)]
  /\ buffer' = [buffer EXCEPT ![s] = PopFront(@).rest]
  /\ lastPoll' = [lastPoll EXCEPT ![s] = "item"]
  /\ polled' = [polled EXCEPT ![s] = TRUE]
  /\ UNCHANGED <<phase, next_start, outstanding, fetches, answers, errs>>
  /\ UNCHANGED <<session_vars, kdf_vars, main_vars>>

\* the page fetch sent before the buffer is looked at, items buffered or not
PollFetchEarly(s) ==
  /\ phase[s] = "idle"
  /\ Len(fetches[s]) < MaxFetches
  /\ fetches' = [fetches EXCEPT ![s] = Append(@, PageRequest(s, next_start[s]))]
  /\ outstanding' = [outstanding EXCEPT ![s] = @ + 1]
  /\ phase' = [phase EXCEPT ![s] = "fetching"]
  /\ lastPoll' = [lastPoll EXCEPT ![s] = "pending"]
  /\ polled' = [polled EXCEPT ![s] = TRUE]
  /\ UNCHANGED <<buffer, next_start, answers, yielded, errs>>
  /\ UNCHANGED <<session_vars, kdf_vars, main_vars>>

\* a poll that finds no item to pop: the page fetch is sent and the future
\* awaits it (client.rs 96-110)
PollFetch(s) ==
  /\ phase[s] = "idle"
  /\ ~PopsBuffer(buffer[s])
  /\ Len(fetches[s]) < MaxFetches
  /\ fetches' = [fetches EXCEPT ![s] = Append(@, PageRequest(s, next_start[s]))]
  /\ outstanding' = [outstanding EXCEPT ![s] = @ + 1]
  /\ phase' = [phase EXCEPT ![s] = "fetching"]
  /\ lastPoll' = [lastPoll EXCEPT ![s] = "pending"]
  /\ polled' = [polled EXCEPT ![s] = TRUE]
  /\ UNCHANGED <<buffer, next_start, answers, yielded, errs>>
  /\ UNCHANGED <<session_vars, kdf_vars, main_vars>>

\* the answer arrives and the awaiting future goes on (client.rs 97-121, then
\* 92-94 for the first item of a non-empty page)
FetchResponse(s, resp) ==
  /\ phase[s] = "fetching"
  /\ LET r == Context(do_json(resp, "entities"), "fetch next page")
     IN /\ answers' = [answers EXCEPT ![s] = Append(@, r)]
        /\ outstanding' = [outstanding EXCEPT ![s] = @ - 1]
        /\ IF ~r.ok
             THEN /\ errs' = [errs EXCEPT ![s] = @ + 1]
                  /\ lastPoll' = [lastPoll EXCEPT ![s] = "err"]
                  /\ phase' = [phase EXCEPT ![s] = AfterError]
                  /\ UNCHANGED <<buffer, next_start, yielded>>
             ELSE IF PageEnds(r.val)
               THEN /\ buffer' = [buffer EXCEPT ![s] = <<>>]
                    /\ lastPoll' = [lastPoll EXCEPT ![s] = "end"]
                    /\ phase' = [phase EXCEPT ![s] = "done"]
                    /\ UNCHANGED <<next_start, yielded, errs>>
               ELSE /\ next_start' = [next_start EXCEPT ![s] = NextCursor(r.val)]
                    /\ yielded' = [yielded EXCEPT ![s] =
                                     Append(@, PopFront(r.val).item)]
                    /\ buffer' = [buffer EXCEPT ![s] = PopFront(r.val).rest]
                    /\ lastPoll' = [lastPoll EXCEPT ![s] = "item"]
                    /\ phase' = [phase EXCEPT ![s] = "idle"]
                    /\ UNCHANGED errs
  /\ UNCHANGED <<fetches, polled>>
  /\ UNCHANGED <<session_vars, kdf_vars, main_vars>>

\* a poll while the page fetch is still awaited: the same future is polled
\* again and stays pending
PollPending(s) ==
  /\ phase[s] = "fetching"
  /\ lastPoll' = [lastPoll EXCEPT ![s] = "pending"]
  /\ polled' = [polled EXCEPT ![s] = TRUE]
  /\ UNCHANGED <<phase, buffer, next_start, outstanding, fetches, answers,
                 yielded, errs>>
  /\ UNCHANGED <<session_vars, kdf_vars, main_vars>>

\* a poll of a stream that ended or failed: try_unfold has no state and no
\* future left and returns None
PollDone(s) ==
  /\ phase[s] = "done"
  /\ lastPoll' = [lastPoll EXCEPT ![s] = "end"]
  /\ polled' = [polled EXCEPT ![s] = TRUE]
  /\ UNCHANGED <<phase, buffer, next_start, outstanding, fetches, answers,
                 yielded, errs>>
  /\ UNCHANGED <<session_vars, kdf_vars, main_vars>>

\* the consumer drops the stream; a fetch it awaited is cancelled with it
Drop(s) ==
  /\ phase[s] \in {"idle", "fetching", "done"}
  /\ phase' = [phase EXCEPT ![s] = "dropped"]
  /\ outstanding' = [outstanding EXCEPT ![s] = 0]
  /\ UNCHANGED <<buffer, next_start, fetches, answers, yielded, errs, lastPoll,
                 polled>>
  /\ UNCHANGED <<session_vars, kdf_vars, main_vars>>


(***************************************************************************)
(* Key derivation: crypto/auth.rs.  A byte string is a sequence of bytes   *)
(* or the symbolic output of a hash: its function, its input, its length.  *)
(***************************************************************************)
KdfVersions == {"Bcrypt", "Argon2id"}
Passphrases == {"password", "hunter2"}
ByteValues == {0, 1}
\* the salt of n bytes b
SaltOf(n, b) == [i \in 1..n |-> b]
Salts == {SaltOf(n, b) : n \in 0..MaxSaltLen, b \in ByteValues}

Hash(fn, input, len) == [fn |-> fn, input |-> input, len |-> len]
\* Sha256::new(); update(bytes); finalize()
Sha256(bytes) == Hash("sha256", bytes, SHA256_OUT_LEN)
\* bcrypt::bcrypt(cost, salt, password)
Bcrypt(cost, salt, password) ==
  Hash("bcrypt", <<cost, salt, password>>, BCRYPT_OUT_LEN)
\* hashed[..n]
Truncate(hashed, n) == [hashed EXCEPT !.len = n]

\* a longer salt cut to its first 16 bytes
SaltFitsAtLeast(salt) == Len(salt) >= BCRYPT_SALT_LEN
\* salt.try_into::<[u8; 16]>() succeeds
SaltFits(salt) == Len(salt) = BCRYPT_SALT_LEN
\* a silent fallback to the Bcrypt derivation
Argon2idFallback(passphrase, salt) ==
  Ok([variant |-> "Aes128",
      bytes |-> Truncate(Bcrypt(BCRYPT_COST, salt, Sha256(passphrase)),
                         AES128_KEY_LEN)])
\* KdfVersion::Argon2id => bail!(...)
Argon2idResult(passphrase, salt) == Err("not implemented: Argon2id")

derive_passkey(kdf_version, passphrase, salt) ==
  IF kdf_version = "Bcrypt"
    THEN LET digest == Sha256(passphrase)
         IN IF ~SaltFits(salt)
              THEN Err("salt length")
              ELSE Ok([variant |-> "Aes128",
                       bytes |-> Truncate(Bcrypt(BCRYPT_COST, salt, digest),
                                          AES128_KEY_LEN)])
    ELSE Argon2idResult(passphrase, salt)

\* Base64Url::from(Sha256(passkey.0))
encode_auth_verifier(passkey) == Sha256(passkey.bytes)

\* crypto::auth::build_auth_verifier, which session.rs calls: the key of
\* derive_passkey, encoded by encode_auth_verifier
build_auth_verifier(kdf_version, passphrase, salt) ==
  LET k == derive_passkey(kdf_version, passphrase, salt)
  IN IF k.ok THEN Ok(encode_auth_verifier(k.val)) ELSE k

IsNoResult(r) == ~r.ok /\ r.err = <<>>

KdfInputs ==
  [kdf_version : KdfVersions, passphrase : Passphrases, salt : Salts]

\* one call of derive_passkey
Derive ==
  /\ IsNoResult(kdf_out)
  /\ kdf_out' = derive_passkey(kdf_in.kdf_version, kdf_in.passphrase, kdf_in.salt)
  /\ UNCHANGED kdf_in
  /\ UNCHANGED <<stream_vars, session_vars, main_vars>>

\* the caller takes the next arguments
NextInput ==
  /\ ~IsNoResult(kdf_out)
  /\ kdf_in' \in KdfInputs
  /\ kdf_out' = NoResult
  /\ UNCHANGED <<stream_vars, session_vars, main_vars>>


(***************************************************************************)
(* The session: session.rs.                                                *)
(***************************************************************************)
SessionIds == 1..MaxSessions

\* LoginCLIConfig of attempt i
Username(i) == IF i = 1 THEN "alice@tuta.com" ELSE "bob@tuta.com"
Password(i) == IF i = 1 THEN "password" ELSE "hunter2"
\* env!("CARGO_PKG_NAME")
ClientIdentifier == "tatutanatata"

\* what the server may answer the salt GET with
LoginSalts ==
  {SaltOf(BCRYPT_SALT_LEN - 1, 0), SaltOf(BCRYPT_SALT_LEN, 0),
   SaltOf(BCRYPT_SALT_LEN + 1, 0)}
SaltResponses ==
  {TransportFailure, Response(TRUE, 404, Garbage), Response(TRUE, 200, Garbage)}
  \cup {Response(TRUE, 200, Json("SaltServiceResponse",
                                 [kdf_version |-> k, salt |-> s])) :
          k \in KdfVersions, s \in LoginSalts}

\* what the server may answer the session-creation POST with; an access
\* token is a byte string of any length
TokenLengths == {0, GENERATE_ID_BYTES_LENGTH - 1, GENERATE_ID_BYTES_LENGTH + 1}
AccessTokens == {[k \in 1..n |-> k] : n \in TokenLengths}
ChallengeLists == {<<>>, <<"totp">>}
SessionResponses ==
  {TransportFailure, Response(TRUE, 500, Garbage), Response(TRUE, 200, Garbage)}
  \cup {Response(TRUE, 200, Json("SessionServiceResponse",
                                 [user |-> "user1", access_token |-> a,
                                  challenges |-> c])) :
          a \in AccessTokens, c \in ChallengeLists}

\* what the server may answer the user GET and the session DELETE with
UserResponses ==
  {TransportFailure, Response(TRUE, 404, Garbage), Response(TRUE, 200, Garbage),
   Response(TRUE, 200, Json("UserResponse", [auth |-> [sessions |-> "list1"]]))}
DeleteResponses ==
  {TransportFailure, Response(TRUE, 500, Garbage), Response(TRUE, 304, Garbage),
   Response(TRUE, 200, Garbage)}

\* Client::service_requst, as session.rs calls it: do_json under "sys"
service_requst(resp, kind) == do_json(resp, kind)
\* Client::service_requst_no_response: do_request under "sys"
service_requst_no_response(resp) ==
  LET r == do_request(resp) IN IF r.ok THEN Ok(<<>>) ELSE r

SaltRequest(i) ==
  Request("GET", "sys", "saltservice", [mail_address |-> Username(i)], None, <<>>)
SessionRequest(i, auth_verifier) ==
  Request("POST", "sys", "sessionservice",
          [auth_verifier |-> auth_verifier,
           client_identifier |-> ClientIdentifier,
           mail_address |-> Username(i)],
          None, <<>>)
UserRequest(sess) ==
  Request("GET", "sys", <<"user", sess.user_id>>, <<>>,
          Some(sess.access_token), <<>>)

\* access_token.as_ref()[GENERATE_ID_BYTES_LENGTH..] is in range
CanSlice(access_token) == Len(access_token) >= GENERATE_ID_BYTES_LENGTH
session_element_id(access_token) ==
  Sha256(SubSeq(access_token, GENERATE_ID_BYTES_LENGTH + 1, Len(access_token)))
DeleteRequest(sess, sessions) ==
  Request("DELETE", "sys",
          <<"session", sessions, session_element_id(sess.access_token)>>,
          <<>>, Some(sess.access_token), <<>>)

\* the challenge list not looked at
HasChallengesIgnored(resp) == FALSE
\* if !resp.challenges.is_empty() { bail!(...) }
HasChallenges(resp) == resp.challenges # <<>>
\* the Session built and handed out before the challenge check
SessionValueEarly(resp) ==
  Some([user_id |-> resp.user, access_token |-> resp.access_token])
\* the Session that login hands to its caller for a decoded response
SessionValue(resp) ==
  IF HasChallenges(resp)
    THEN None
    ELSE Some([user_id |-> resp.user, access_token |-> resp.access_token])
\* what login returns for a decoded session-creation response
LoginReturn(resp) ==
  IF HasChallenges(resp)
    THEN Err("not implemented: challenges")
    ELSE Ok([user_id |-> resp.user, access_token |-> resp.access_token])
\* logout(&self, ..): the caller keeps its Session
LifeAfterLogoutBorrow == "Active"
\* logout(self, ..): the caller's Session is moved into the call
LifeAfterLogoutCall == "Closed"

\* Session::login is called: the salt GET is sent (session.rs 41-47)
Login(i) ==
  /\ pc[i] = "start"
  /\ requests' = [requests EXCEPT ![i] = Append(@, SaltRequest(i))]
  /\ pc' = [pc EXCEPT ![i] = "salt"]
  /\ UNCHANGED <<life, session, login_res, logout_res, logouts, replies>>
  /\ UNCHANGED <<stream_vars, kdf_vars, main_vars>>

\* login returns r and hands its caller the Session sess, if any
LoginEnds(i, r, sess) ==
  /\ login_res' = [login_res EXCEPT ![i] = r]
  /\ session' = [session EXCEPT ![i] = sess]
  /\ life' = [life EXCEPT ![i] = IF sess # None THEN "Active" ELSE @]
  /\ pc' = [pc EXCEPT ![i] = "login_done"]

\* the salt is answered: the verifier is built and the session-creation POST
\* is sent (session.rs 45-66)
SaltResponse(i, resp) ==
  /\ pc[i] = "salt"
  /\ replies' = [replies EXCEPT ![i] = Append(@, resp)]
  /\ LET r == Context(service_requst(resp, "SaltServiceResponse"), "get salt")
         v == Context(build_auth_verifier(r.val.kdf_version, Password(i),
                                          r.val.salt),
                      "build auth verifier")
     IN IF ~r.ok
          THEN LoginEnds(i, r, None) /\ UNCHANGED requests
          ELSE IF ~v.ok
            THEN LoginEnds(i, v, None) /\ UNCHANGED requests
            ELSE /\ requests' = [requests EXCEPT ![i] =
                                   Append(@, SessionRequest(i, v.val))]
                 /\ pc' = [pc EXCEPT ![i] = "session"]
                 /\ UNCHANGED <<life, session, login_res>>
  /\ UNCHANGED <<logout_res, logouts>>
  /\ UNCHANGED <<stream_vars, kdf_vars, main_vars>>

\* the session creation is answered (session.rs 64-78)
SessionResponse(i, resp) ==
  /\ pc[i] = "session"
  /\ replies' = [replies EXCEPT ![i] = Append(@, resp)]
  /\ LET r == Context(service_requst(resp, "SessionServiceResponse"),
                      "get session")
     IN IF ~r.ok
          THEN LoginEnds(i, r, None)
          ELSE LoginEnds(i, LoginReturn(r.val), SessionValue(r.val))
  /\ UNCHANGED <<logout_res, logouts, requests>>
  /\ UNCHANGED <<stream_vars, kdf_vars, main_vars>>

\* Session::logout is called on the Session the caller holds: the user GET
\* is sent (session.rs 81-89)
Logout(i) ==
  /\ pc[i] \in {"login_done", "logout_done"}
  /\ life[i] = "Active"
  /\ life' = [life EXCEPT ![i] = LifeAfterLogoutCall]
  /\ logouts' = [logouts EXCEPT ![i] = @ + 1]
  /\ requests' = [requests EXCEPT ![i] = Append(@, UserRequest(session[i][1]))]
  /\ pc' = [pc EXCEPT ![i] = "get_user"]
  /\ UNCHANGED <<session, login_res, logout_res, replies>>
  /\ UNCHANGED <<stream_vars, kdf_vars, main_vars>>

\* the error of the user GET dropped: the session DELETE is sent whatever the
\* answer was
UserResponseUnchecked(i, resp) ==
  /\ pc[i] = "get_user"
  /\ replies' = [replies EXCEPT ![i] = Append(@, resp)]
  /\ LET r == Context(service_requst(resp, "UserResponse"), "get user")
         sessions == IF r.ok THEN r.val.auth.sessions ELSE "unknown"
     IN IF ~CanSlice(session[i][1].access_token)
          THEN /\ pc' = [pc EXCEPT ![i] = "panicked"]
               /\ UNCHANGED <<logout_res, requests>>
          ELSE /\ requests' = [requests EXCEPT ![i] =
                    Append(@, DeleteRequest(session[i][1], sessions))]
               /\ pc' = [pc EXCEPT ![i] = "delete"]
               /\ UNCHANGED logout_res
  /\ UNCHANGED <<life, session, login_res, logouts>>
  /\ UNCHANGED <<stream_vars, kdf_vars, main_vars>>

\* the user record is answered: the session DELETE is sent (session.rs 82-104)
UserResponse(i, resp) ==
  /\ pc[i] = "get_user"
  /\ replies' = [replies EXCEPT ![i] = Append(@, resp)]
  /\ LET r == Context(service_requst(resp, "UserResponse"), "get user")
     IN IF ~r.ok
          THEN /\ logout_res' = [logout_res EXCEPT ![i] = r]
               /\ pc' = [pc EXCEPT ![i] = "logout_done"]
               /\ UNCHANGED requests
          ELSE IF ~CanSlice(session[i][1].access_token)
            THEN \* the slice panics and the call unwinds
                 /\ pc' = [pc EXCEPT ![i] = "panicked"]
                 /\ UNCHANGED <<logout_res, requests>>
            ELSE /\ requests' = [requests EXCEPT ![i] =
                      Append(@, DeleteRequest(session[i][1], r.val.auth.sessions))]
                 /\ pc' = [pc EXCEPT ![i] = "delete"]
                 /\ UNCHANGED logout_res
  /\ UNCHANGED <<life, session, login_res, logouts>>
  /\ UNCHANGED <<stream_vars, kdf_vars, main_vars>>

\* the session deletion is answered (session.rs 92-107)
DeleteResponse(i, resp) ==
  /\ pc[i] = "delete"
  /\ replies' = [replies EXCEPT ![i] = Append(@, resp)]
  /\ logout_res' = [logout_res EXCEPT ![i] =
                      Context(service_requst_no_response(resp), "session deletion")]
  /\ pc' = [pc EXCEPT ![i] = "logout_done"]
  /\ UNCHANGED <<life, session, login_res, logouts, requests>>
  /\ UNCHANGED <<stream_vars, kdf_vars, main_vars>>

(***************************************************************************)
(* main: main.rs 74-96.  Run i of main uses login attempt i.               *)
(***************************************************************************)
\* what exec_cmd may return; what it does with the client is left out
CmdResults == {Ok(<<>>), Err("list folders"), Err("download")}

\* logout called as soon as login returned, whether exec_cmd ran or not
LogoutBeforeCmd(res) == TRUE
\* session.logout(&client) follows exec_cmd(..).await: cmd_res holds a result
LogoutAfterCmd(res) == ~IsNoResult(res)

\* match (cmd_res, logout_res) { (Err(e), _) => Err(e), (_, Err(e)) => Err(e),
\* (Ok(()), Ok(())) => Ok(()) }
MainMatch(c, l) == IF ~c.ok THEN c ELSE IF ~l.ok THEN l ELSE Ok(<<>>)

\* Session::login(..).await.context("perform login")? returns the Err
MainLoginFailed(i) ==
  /\ pc[i] = "login_done"
  /\ ~login_res[i].ok
  /\ IsNoResult(main_res[i])
  /\ main_res' = [main_res EXCEPT ![i] = Context(login_res[i], "perform login")]
  /\ UNCHANGED cmd_res
  /\ UNCHANGED <<stream_vars, session_vars, kdf_vars>>

\* exec_cmd(&client, &session, ..).await.context("execute command") ends
\* with r
ExecCmd(i, r) ==
  /\ pc[i] = "login_done"
  /\ login_res[i].ok
  /\ IsNoResult(cmd_res[i])
  /\ logouts[i] = 0
  /\ cmd_res' = [cmd_res EXCEPT ![i] = Context(r, "execute command")]
  /\ UNCHANGED main_res
  /\ UNCHANGED <<stream_vars, session_vars, kdf_vars>>

\* session.logout(&client) is called (main.rs 89)
MainLogout(i) ==
  /\ login_res[i].ok
  /\ LogoutAfterCmd(cmd_res[i])
  /\ Logout(i)

\* logout returned: main returns what the match gives (main.rs 89-95)
MainReturns(i) ==
  /\ pc[i] = "logout_done"
  /\ IsNoResult(main_res[i])
  /\ main_res' = [main_res EXCEPT ![i] =
                    MainMatch(cmd_res[i], Context(logout_res[i], "logout"))]
  /\ UNCHANGED cmd_res
  /\ UNCHANGED <<stream_vars, session_vars, kdf_vars>>

(***************************************************************************)
(* The specifications.                                                     *)
(***************************************************************************)
StreamInit ==
  /\ phase = [s \in StreamIds |-> "none"]
  /\ buffer = [s \in StreamIds |-> <<>>]
  /\ next_start = [s \in StreamIds |-> SENTINEL]
  /\ outstanding = [s \in StreamIds |-> 0]
  /\ fetches = [s \in StreamIds |-> <<>>]
  /\ answers = [s \in StreamIds |-> <<>>]
  /\ yielded = [s \in StreamIds |-> <<>>]
  /\ errs = [s \in StreamIds |-> 0]
  /\ lastPoll = [s \in StreamIds |-> "none"]
  /\ polled = [s \in StreamIds |-> FALSE]

SessionInit ==
  /\ pc = [i \in SessionIds |-> "start"]
  /\ life = [i \in SessionIds |-> "NoSession"]
  /\ session = [i \in SessionIds |-> None]
  /\ login_res = [i \in SessionIds |-> NoResult]
  /\ logout_res = [i \in SessionIds |-> NoResult]
  /\ logouts = [i \in SessionIds |-> 0]
  /\ requests = [i \in SessionIds |-> <<>>]
  /\ replies = [i \in SessionIds |-> <<>>]

KdfIdle ==
  /\ kdf_in = [kdf_version |-> "Bcrypt", passphrase |-> "password",
               salt |-> SaltOf(BCRYPT_SALT_LEN, 0)]
  /\ kdf_out = NoResult

MainInit ==
  /\ cmd_res = [i \in SessionIds |-> NoResult]
  /\ main_res = [i \in SessionIds |-> NoResult]

Init == StreamInit /\ SessionInit /\ KdfIdle /\ MainInit

\* one stream and its consumer
StreamNext ==
  \E s \in {1} :
    \/ Stream(s)
    \/ PollPop(s)
    \/ PollFetch(s)
    \/ PollPending(s)
    \/ \E resp \in StreamResponses : FetchResponse(s, resp)
    \/ PollDone(s)
    \/ Drop(s)

SpecStream == Init /\ [][StreamNext]_vars

\* two streams of one Client and their consumers, polled in any order; the
\* server answers from a smaller set of responses
TwoStreamPages == {<<>>, <<"A">>, <<"A", "B">>}
TwoStreamResponses ==
  {TransportFailure}
  \cup {Response(TRUE, 200, Json("entities", p)) : p \in TwoStreamPages}
TwoStreamsNext ==
  \E s \in StreamIds :
    \/ Stream(s)
    \/ PollPop(s)
    \/ PollFetch(s)
    \/ PollPending(s)
    \/ \E resp \in TwoStreamResponses : FetchResponse(s, resp)
    \/ PollDone(s)
    \/ Drop(s)

SpecTwoStreams == Init /\ [][TwoStreamsNext]_vars

\* the callers of login and logout
SessionNext ==
  \E i \in SessionIds :
    \/ Login(i)
    \/ \E resp \in SaltResponses : SaltResponse(i, resp)
    \/ \E resp \in SessionResponses : SessionResponse(i, resp)
    \/ Logout(i)
    \/ \E resp \in UserResponses : UserResponse(i, resp)
    \/ \E resp \in DeleteResponses : DeleteResponse(i, resp)

SpecSession == Init /\ [][SessionNext]_vars

\* derive_passkey on every input
KdfInit ==
  /\ StreamInit /\ SessionInit /\ MainInit
  /\ kdf_in \in KdfInputs /\ kdf_out = NoResult
KdfNext == Derive \/ NextInput
SpecKdf == KdfInit /\ [][KdfNext]_vars

\* runs of main: login, the command, logout, the return
MainRuns == {1, 2}
MainNext ==
  \E i \in MainRuns :
    \/ Login(i)
    \/ \E resp \in SaltResponses : SaltResponse(i, resp)
    \/ \E resp \in SessionResponses : SessionResponse(i, resp)
    \/ MainLoginFailed(i)
    \/ \E r \in CmdResults : ExecCmd(i, r)
    \/ MainLogout(i)
    \/ \E resp \in UserResponses : UserResponse(i, resp)
    \/ \E resp \in DeleteResponses : DeleteResponse(i, resp)
    \/ MainReturns(i)

SpecMain == Init /\ [][MainNext]_vars

\* all of it at once: the product of them
Next == StreamNext \/ SessionNext \/ KdfNext \/ MainNext
Spec == Init /\ [][Next]_vars


(***************************************************************************)
(* What the stream has done so far, read from its logs.                    *)
(***************************************************************************)
RECURSIVE Flatten(_)
Flatten(ps) == IF ps = <<>> THEN <<>> ELSE Head(ps) \o Flatten(Tail(ps))

\* the pages of the fetches answered so far; a failed fetch brought none
PagesOf(s) == [k \in 1..Len(answers[s]) |->
                 IF answers[s][k].ok THEN answers[s][k].val ELSE <<>>]
Failed(s) == \E k \in 1..Len(answers[s]) : ~answers[s][k].ok
\* the cursors sent as start, in order
Cursors(s) == [k \in 1..Len(fetches[s]) |-> fetches[s][k].query.start]
FetchStarts(s) == Len(fetches'[s]) > Len(fetches[s])

(***************************************************************************)
(* C1: whenever every fetch answered so far succeeded, the items yielded   *)
(* and the items still buffered are together the items of the fetched      *)
(* pages, in page order and in-page order, each once; and a stream that    *)
(* has ended after successful fetches only has yielded all of them, has    *)
(* yielded no error, got an empty page as its last and only empty page.    *)
(***************************************************************************)
C1_YieldsPagesInOrder ==
  \A s \in StreamIds :
    ~Failed(s) =>
      /\ yielded[s] \o buffer[s] = Flatten(PagesOf(s))
      /\ phase[s] = "done" =>
           /\ yielded[s] = Flatten(PagesOf(s))
           /\ errs[s] = 0
           /\ lastPoll[s] = "end"
           /\ answers[s] # <<>>
           /\ \A k \in 1..Len(answers[s]) :
                (answers[s][k].val = <<>>) <=> (k = Len(answers[s]))

\* pages [A, B], [B], [] were fetched and the stream has ended
C1_Witness ==
  /\ phase[1] = "done"
  /\ PagesOf(1) = << <<"A", "B">>, <<"B">>, <<>> >>
  /\ yielded[1] = <<"A", "B", "B">>

(***************************************************************************)
(* C2: a failed page fetch is the last answer the stream gets; it yields   *)
(* one error item, and from then on no item and no error is yielded, no    *)
(* page fetch is sent, and every poll returns the end of the stream.       *)
(***************************************************************************)
C2_FailedState ==
  \A s \in StreamIds :
    /\ errs[s] <= 1
    /\ Failed(s) <=> errs[s] = 1
    /\ Failed(s) =>
         /\ ~answers[s][Len(answers[s])].ok
         /\ phase[s] \in {"done", "dropped"}
         /\ outstanding[s] = 0
         /\ lastPoll[s] \in {"err", "end"}

C2_FailedStep ==
  \A s \in StreamIds :
    Failed(s) =>
      /\ yielded'[s] = yielded[s]
      /\ errs'[s] = errs[s]
      /\ fetches'[s] = fetches[s]
      /\ answers'[s] = answers[s]
      /\ lastPoll'[s] # lastPoll[s] => lastPoll'[s] = "end"

\* C2: after a failed page fetch the stream yields one error and is terminal
C2_ErrorIsTerminal == []C2_FailedState /\ [][C2_FailedStep]_vars

\* the second fetch failed, and the stream was polled again after the error
C2_Witness ==
  /\ Len(answers[1]) = 2
  /\ ~answers[1][2].ok
  /\ errs[1] = 1
  /\ yielded[1] # <<>>
  /\ lastPoll[1] = "end"

(***************************************************************************)
(* C3: a stream has at most one page fetch outstanding, and it sends a     *)
(* page fetch only when every earlier one has been answered and every item *)
(* of the answers has been yielded.                                        *)
(***************************************************************************)
C3_AtMostOne ==
  \A s \in StreamIds :
    /\ outstanding[s] \in {0, 1}
    /\ outstanding[s] = 1 <=> phase[s] = "fetching"
    /\ phase[s] # "dropped" => Len(fetches[s]) = Len(answers[s]) + outstanding[s]

C3_FetchStep ==
  \A s \in StreamIds :
    FetchStarts(s) =>
      /\ outstanding[s] = 0
      /\ Len(answers[s]) = Len(fetches[s])
      /\ buffer[s] = <<>>
      /\ yielded[s] = Flatten(PagesOf(s))
      /\ Len(fetches'[s]) = Len(fetches[s]) + 1

\* C3: at most one page fetch outstanding, the next only after all was yielded
C3_SingleFlight == []C3_AtMostOne /\ [][C3_FetchStep]_vars

\* the second fetch is outstanding, after a page of two items
C3_Witness ==
  /\ Len(fetches[1]) = 2
  /\ outstanding[1] = 1
  /\ Len(yielded[1]) = 2

(***************************************************************************)
(* C4: a stream that has not been polled has sent nothing; a page fetch is *)
(* sent only by a poll that finds the buffer empty; a dropped stream sends *)
(* nothing and has nothing outstanding.                                    *)
(***************************************************************************)
C4_NothingUnpolled ==
  \A s \in StreamIds :
    /\ ~polled[s] => fetches[s] = <<>> /\ outstanding[s] = 0
    /\ phase[s] = "dropped" => outstanding[s] = 0

C4_FetchStep ==
  \A s \in StreamIds :
    /\ FetchStarts(s) =>
         /\ phase[s] = "idle"
         /\ buffer[s] = <<>>
         /\ polled'[s]
         /\ lastPoll'[s] = "pending"
    /\ phase[s] = "dropped" => fetches'[s] = fetches[s] /\ phase'[s] = "dropped"

\* C4: page fetches are sent only by polls that find the buffer empty
C4_Lazy == []C4_NothingUnpolled /\ [][C4_FetchStep]_vars

\* the consumer took one item of a page of two and dropped the stream
C4_Witness ==
  /\ phase[1] = "dropped"
  /\ Len(yielded[1]) = 1
  /\ Len(buffer[1]) = 1
  /\ Len(fetches[1]) = 1

(***************************************************************************)
(* C5: a stream ends only on an empty page or a failed fetch, and a poll   *)
(* that finds the buffer empty after a non-empty page sends the next page  *)
(* fetch; every page of the model is shorter than the batch size.          *)
(***************************************************************************)
C5_EndsOnlyOnEmpty ==
  \A s \in StreamIds :
    /\ phase[s] = "done" =>
         /\ answers[s] # <<>>
         /\ LET last == answers[s][Len(answers[s])]
            IN ~last.ok \/ last.val = <<>>
    /\ \A k \in 1..Len(answers[s]) :
         (answers[s][k].ok /\ answers[s][k].val # <<>>) =>
           /\ Len(answers[s][k].val) < STREAM_BATCH_SIZE
           /\ (k = Len(answers[s])) => (phase[s] # "done")

C5_PollStep ==
  \A s \in StreamIds :
    (phase[s] = "idle" /\ buffer[s] = <<>> /\ lastPoll'[s] # lastPoll[s]) =>
      /\ FetchStarts(s)
      /\ phase'[s] = "fetching"

\* C5: a non-empty page never ends the stream; the next poll fetches again
C5_PartialPageGoesOn == []C5_EndsOnlyOnEmpty /\ [][C5_PollStep]_vars

\* after a page of one item, the next poll has sent the second fetch
C5_Witness ==
  /\ Len(answers[1]) = 1
  /\ answers[1][1].ok
  /\ Len(answers[1][1].val) = 1
  /\ Len(fetches[1]) = 2
  /\ phase[1] = "fetching"

(***************************************************************************)
(* C6: the cursors a stream sends never decrease: of two consecutive page  *)
(* fetches, the later start sorts at or after the earlier.                 *)
(***************************************************************************)
C6_CursorMonotone ==
  \A s \in StreamIds :
    \A k \in 1..(Len(fetches[s]) - 1) :
      IdLeq(Cursors(s)[k], Cursors(s)[k + 1])


(***************************************************************************)
(* What a login attempt has met so far, read from its logs.                *)
(***************************************************************************)
InLogin(i) == pc[i] \in {"start", "salt", "session"}
LoginFailed(i) == ~InLogin(i) /\ ~login_res[i].ok
\* the session-creation response was decoded and carries challenges
Challenged(i) ==
  /\ Len(replies[i]) >= 2
  /\ LET r == do_json(replies[i][2], "SessionServiceResponse")
     IN r.ok /\ Len(r.val.challenges) > 0

(***************************************************************************)
(* C7: the life of a Session slot moves only from NoSession to Active, in  *)
(* the step in which login returns Ok, and from Active to Closed, in the   *)
(* step in which logout is called; an Active Session is the value a        *)
(* successful login returned; logout is called at most once on it, and has *)
(* been called exactly once on a Closed one, whatever logout returned.     *)
(***************************************************************************)
C7_LifeState ==
  \A i \in SessionIds :
    /\ life[i] \in {"NoSession", "Active", "Closed"}
    /\ logouts[i] <= 1
    /\ life[i] = "NoSession" => session[i] = None /\ logouts[i] = 0
    /\ life[i] = "Active" =>
         /\ login_res[i].ok
         /\ session[i] = Some(login_res[i].val)
         /\ logouts[i] = 0
         /\ pc[i] = "login_done"
    /\ life[i] = "Closed" => login_res[i].ok /\ logouts[i] = 1
    /\ ~IsNoResult(logout_res[i]) => life[i] = "Closed"

C7_LifeStep ==
  \A i \in SessionIds :
    /\ life'[i] # life[i] =>
         \/ /\ life[i] = "NoSession"
            /\ life'[i] = "Active"
            /\ pc[i] = "session"
            /\ login_res'[i].ok
         \/ /\ life[i] = "Active"
            /\ life'[i] = "Closed"
            /\ logouts'[i] = logouts[i] + 1
    /\ logouts'[i] # logouts[i] => life[i] = "Active"
    /\ session'[i] # session[i] => life[i] = "NoSession"

\* C7: NoSession -> Active -> Closed only, and logout at most once per Session
C7_Lifecycle == []C7_LifeState /\ [][C7_LifeStep]_vars

\* one Session was closed by a logout that failed, another by one that
\* succeeded
C7_Witness ==
  \E i, j \in SessionIds :
    /\ life[i] = "Closed" /\ pc[i] = "logout_done" /\ ~logout_res[i].ok
    /\ life[j] = "Closed" /\ pc[j] = "logout_done" /\ logout_res[j].ok

(***************************************************************************)
(* C8: when the decoded session-creation response carries challenges,      *)
(* login returns the error "not implemented: challenges", no Session       *)
(* exists, and the session-creation POST is the last request sent.         *)
(***************************************************************************)
C8_ChallengesNotImplemented ==
  \A i \in SessionIds :
    Challenged(i) =>
      /\ pc[i] = "login_done"
      /\ ~login_res[i].ok
      /\ login_res[i].err = <<"not implemented: challenges">>
      /\ session[i] = None
      /\ life[i] = "NoSession"
      /\ Len(requests[i]) = 2
      /\ requests[i][2].method = "POST"
      /\ requests[i][2].path = "sessionservice"

\* a login met a challenge list
C8_Witness ==
  \E i \in SessionIds : Challenged(i) /\ Len(replies[i]) = 2

(***************************************************************************)
(* C9: once login has returned a failure, whichever step failed, no        *)
(* Session exists for the attempt: the caller holds none, the slot is in   *)
(* NoSession, and logout is never called for it.                           *)
(***************************************************************************)
C9_FailedLoginState ==
  \A i \in SessionIds :
    LoginFailed(i) =>
      /\ life[i] = "NoSession"
      /\ session[i] = None
      /\ logouts[i] = 0
      /\ pc[i] = "login_done"
      /\ login_res[i].err # <<>>
      /\ login_res[i].err[1] \in
           {"get salt", "build auth verifier", "get session",
            "not implemented: challenges"}

C9_FailedLoginStep ==
  \A i \in SessionIds :
    LoginFailed(i) =>
      /\ LoginFailed(i)'
      /\ requests'[i] = requests[i]
      /\ login_res'[i] = login_res[i]

\* C9: a failed login leaves the attempt in NoSession for good
C9_NoPartialSession == []C9_FailedLoginState /\ [][C9_FailedLoginStep]_vars

\* one login failed in the key derivation, another in the challenge check
C9_Witness ==
  \E i, j \in SessionIds :
    /\ LoginFailed(i)
    /\ login_res[i].err = <<"build auth verifier", "salt length">>
    /\ LoginFailed(j)
    /\ login_res[j].err = <<"not implemented: challenges">>

(***************************************************************************)
(* C10: derive_passkey returns a key exactly for Bcrypt with a salt of 16  *)
(* bytes; for Bcrypt with another salt length it fails with "salt length", *)
(* and for Argon2id it fails with "not implemented: Argon2id".             *)
(***************************************************************************)
C10_DeriveKeyIff ==
  ~IsNoResult(kdf_out) =>
    /\ kdf_out.ok <=> (kdf_in.kdf_version = "Bcrypt" /\ Len(kdf_in.salt) = 16)
    /\ kdf_out.ok => kdf_out.val.variant = "Aes128" /\ kdf_out.val.bytes.len = 16
    /\ (kdf_in.kdf_version = "Bcrypt" /\ Len(kdf_in.salt) # 16) =>
         kdf_out.err = <<"salt length">>
    /\ kdf_in.kdf_version = "Argon2id" =>
         kdf_out.err = <<"not implemented: Argon2id">>

\* a key was derived
C10_Witness ==
  /\ kdf_out.ok
  /\ kdf_in.kdf_version = "Bcrypt"
  /\ Len(kdf_in.salt) = 16


(***************************************************************************)
(* What the request core was answered, read from an attempt's logs.        *)
(***************************************************************************)
AwaitsReply(i) == pc[i] \in {"salt", "session", "get_user", "delete"}
\* the type the body of the k-th reply of an attempt is decoded to; the
\* fourth, to the session DELETE, is not decoded
ReplyKind(k) ==
  CASE k = 1 -> "SaltServiceResponse"
    [] k = 2 -> "SessionServiceResponse"
    [] k = 3 -> "UserResponse"
    [] OTHER -> "none"
\* the status is in 200..299
Is2xx(resp) == resp.status >= 200 /\ resp.status <= 299
\* a transport failure, a non-2xx status or a body that does not decode
BadReply(i, k) ==
  LET resp == replies[i][k]
  IN \/ ~resp.arrived
     \/ ~Is2xx(resp)
     \/ k <= 3 /\ resp.body.json # ReplyKind(k)
ReturnedErr(r) == ~r.ok /\ r.err # <<>>

(***************************************************************************)
(* C12: every call of the request core sends one request and is answered   *)
(* at most once, so a login sends at most 2 requests and a logout at most  *)
(* 2; and a transport failure, a non-2xx status or an undecodable body is   *)
(* the last reply of its login or logout, which returns an error.          *)
(***************************************************************************)
C12_OneRequestPerCall ==
  \A i \in SessionIds :
    /\ Len(requests[i]) = Len(replies[i]) + (IF AwaitsReply(i) THEN 1 ELSE 0)
    /\ logouts[i] = 0 => Len(requests[i]) <= 2
    /\ Len(requests[i]) <= 4

C12_FailureReturnsErr ==
  \A i \in SessionIds :
    \A k \in 1..Len(replies[i]) :
      BadReply(i, k) =>
        /\ k = Len(replies[i])
        /\ ~AwaitsReply(i)
        /\ k <= 2 => ReturnedErr(login_res[i])
        /\ k > 2 => ReturnedErr(logout_res[i])

\* C12: one request per call, no retry, every failure returned at once
C12_NoRetry == C12_OneRequestPerCall /\ C12_FailureReturnsErr


(***************************************************************************)
(* C13: whenever a Session exists, its access token is not empty.          *)
(***************************************************************************)
C13_TokenNonEmpty ==
  \A i \in SessionIds :
    session[i] # None => Len(session[i][1].access_token) > 0


(***************************************************************************)
(* What a stream that runs alone sends and yields for given answers.       *)
(***************************************************************************)
\* the cursor of a stream after the answers ans: the id of the last entity
\* of the latest non-empty page, the sentinel when there is none
RECURSIVE AloneCursor(_)
AloneCursor(ans) ==
  IF ans = <<>> THEN SENTINEL
  ELSE LET last == ans[Len(ans)]
       IN IF last.ok /\ last.val # <<>>
            THEN last.val[Len(last.val)]
            ELSE AloneCursor(SubSeq(ans, 1, Len(ans) - 1))
\* all the fields of one stream
StreamView(s) ==
  <<phase[s], buffer[s], next_start[s], outstanding[s], fetches[s], answers[s],
    yielded[s], errs[s], lastPoll[s], polled[s]>>

(***************************************************************************)
(* C14: with two streams polled in any order, every stream sends the       *)
(* cursors and yields the items that follow from its own answers alone, as *)
(* a stream that runs alone does, under its own path and token; and a step *)
(* of one stream changes no field of the other.                            *)
(***************************************************************************)
C14_OwnAnswersOnly ==
  \A s \in StreamIds :
    /\ yielded[s] \o buffer[s] = Flatten(PagesOf(s))
    /\ phase[s] \in {"idle", "fetching"} => next_start[s] = AloneCursor(answers[s])
    /\ \A k \in 1..Len(fetches[s]) :
         /\ fetches[s][k].query.start = AloneCursor(SubSeq(answers[s], 1, k - 1))
         /\ fetches[s][k].path = StreamPath(s)
         /\ fetches[s][k].access_token = StreamToken(s)

C14_OneStreamPerStep ==
  \A s, u \in StreamIds :
    (s # u /\ StreamView(s)' # StreamView(s)) => StreamView(u)' = StreamView(u)

\* C14: two interleaved streams of one Client do not interfere
C14_NoInterference == []C14_OwnAnswersOnly /\ [][C14_OneStreamPerStep]_vars

\* both streams await their second page at once, with different cursors
C14_Witness ==
  /\ phase[1] = "fetching" /\ phase[2] = "fetching"
  /\ Len(fetches[1]) = 2 /\ Len(fetches[2]) = 2
  /\ Cursors(1)[2] = "A" /\ Cursors(2)[2] = "B"


(***************************************************************************)
(* C15: the first fetch of a stream sends start = "------------"; a later  *)
(* fetch follows a non-empty page and sends the id of that page's last     *)
(* entity; every fetch sends count = 1000 and reverse = false; the cursor  *)
(* of a stream changes only in the step that receives a non-empty page.    *)
(***************************************************************************)
C15_Queries ==
  \A s \in StreamIds :
    \A k \in 1..Len(fetches[s]) :
      LET q == fetches[s][k].query
      IN /\ q.count = 1000
         /\ q.reverse = "false"
         /\ k = 1 => q.start = "------------"
         /\ k > 1 => /\ answers[s][k - 1].ok
                     /\ answers[s][k - 1].val # <<>>
                     /\ q.start = answers[s][k - 1].val[Len(answers[s][k - 1].val)]

C15_CursorStep ==
  \A s \in StreamIds :
    (phase[s] # "none" /\ next_start[s]' # next_start[s]) =>
      /\ Len(answers[s]') = Len(answers[s]) + 1
      /\ LET r == answers[s]'[Len(answers[s]')]
         IN /\ r.ok
            /\ r.val # <<>>
            /\ next_start[s]' = r.val[Len(r.val)]

\* C15: the cursor protocol of the page fetches
C15_CursorProtocol == []C15_Queries /\ [][C15_CursorStep]_vars

\* a third fetch was sent after the pages [A, B] and [A]
C15_Witness ==
  /\ Len(fetches[1]) = 3
  /\ fetches[1][2].query.start = "B"
  /\ fetches[1][3].query.start = "A"


(***************************************************************************)
(* C16: login sends the salt GET first and the session-creation POST       *)
(* second; the POST is sent only after the salt GET was answered with a    *)
(* decoded response whose scheme is Bcrypt and whose salt has 16 bytes;    *)
(* after any other answer login has failed and sent the salt GET only.     *)
(***************************************************************************)
\* the salt GET answered with a response that login can use
SaltUsable(resp) ==
  /\ resp.arrived
  /\ Is2xx(resp)
  /\ resp.body.json = "SaltServiceResponse"
  /\ resp.body.val[1].kdf_version = "Bcrypt"
  /\ Len(resp.body.val[1].salt) = 16

C16_LoginRequests ==
  \A i \in SessionIds :
    /\ Len(requests[i]) >= 1 =>
         /\ requests[i][1].method = "GET"
         /\ requests[i][1].path = "saltservice"
    /\ Len(requests[i]) >= 2 =>
         /\ requests[i][2].method = "POST"
         /\ requests[i][2].path = "sessionservice"
         /\ Len(replies[i]) >= 1
         /\ SaltUsable(replies[i][1])
    /\ (Len(replies[i]) >= 1 /\ ~SaltUsable(replies[i][1])) =>
         /\ Len(requests[i]) = 1
         /\ pc[i] = "login_done"
         /\ ReturnedErr(login_res[i])
         /\ session[i] = None

C16_AppendStep ==
  \A i \in SessionIds :
    requests[i]' # requests[i] =>
      /\ Len(requests[i]') = Len(requests[i]) + 1
      /\ SubSeq(requests[i]', 1, Len(requests[i])) = requests[i]

\* C16: the order of the requests of login
C16_LoginOrder == []C16_LoginRequests /\ [][C16_AppendStep]_vars

\* one login sent the POST after a usable salt, another failed on an
\* Argon2id answer with the salt GET as its only request
C16_Witness ==
  /\ Len(requests[1]) = 2 /\ pc[1] = "session"
  /\ pc[2] = "login_done" /\ Len(requests[2]) = 1
  /\ replies[2][1].arrived /\ replies[2][1].body.json = "SaltServiceResponse"
  /\ replies[2][1].body.val[1].kdf_version = "Argon2id"
  /\ Len(replies[2][1].body.val[1].salt) = 16


(***************************************************************************)
(* C17: logout sends the user GET first and the session DELETE second; the *)
(* DELETE is sent only after the GET was answered with a decoded user      *)
(* record; a failed GET or DELETE is the Err that logout returns, under    *)
(* the context of the failed request; a logout sends at most these two     *)
(* requests and after a failed logout the session sends nothing more.      *)
(***************************************************************************)
\* the user GET answered with a user record
UserUsable(resp) ==
  /\ resp.arrived
  /\ Is2xx(resp)
  /\ resp.body.json = "UserResponse"
\* the DELETE not answered, or answered with a client or server error
DeleteFailed(resp) == ~resp.arrived \/ resp.status >= 400

C17_LogoutRequests ==
  \A i \in SessionIds :
    /\ Len(requests[i]) <= 4
    /\ Len(requests[i]) >= 3 =>
         /\ logouts[i] = 1
         /\ requests[i][3].method = "GET"
         /\ requests[i][3].path = <<"user", session[i][1].user_id>>
    /\ Len(requests[i]) = 4 =>
         /\ requests[i][4].method = "DELETE"
         /\ requests[i][4].path[1] = "session"
         /\ Len(replies[i]) >= 3
         /\ UserUsable(replies[i][3])
    /\ (Len(replies[i]) >= 3 /\ ~UserUsable(replies[i][3])) =>
         /\ Len(requests[i]) = 3
         /\ pc[i] = "logout_done"
         /\ ReturnedErr(logout_res[i])
         /\ Head(logout_res[i].err) = "get user"
    /\ (Len(replies[i]) = 4 /\ DeleteFailed(replies[i][4])) =>
         /\ pc[i] = "logout_done"
         /\ ReturnedErr(logout_res[i])
         /\ Head(logout_res[i].err) = "session deletion"

C17_FailedLogoutStep ==
  \A i \in SessionIds :
    (pc[i] = "logout_done" /\ ~logout_res[i].ok) =>
      /\ requests[i]' = requests[i]
      /\ pc[i]' = pc[i]
      /\ logout_res[i]' = logout_res[i]

C18_TokenHeader ==
  \A i \in SessionIds :
    \A k \in 1..Len(requests[i]) :
      LET req == requests[i][k]
      IN /\ k <= 2 => req.headers = <<>>
         /\ k >= 3 =>
              /\ session[i] # <<>>
              /\ req.headers =
                   << <<"accessToken",
                        [to_string |-> session[i][1].access_token]>> >>
         /\ (req.headers # <<>>) <=> (req.access_token # <<>>)

\* a logout sent both of its requests for a session with a 10-byte token
C18_Witness ==
  /\ Len(requests[1]) = 4
  /\ Len(session[1][1].access_token) = 10
  /\ requests[1][4].method = "DELETE"


(***************************************************************************)
(* C20: the access token of every Session that login returns has at least  *)
(* the 9 bytes that session_element_id strips, so that a logout whose user *)
(* GET was answered with a user record goes on to send the session DELETE  *)
(* and never aborts in between.                                            *)
(***************************************************************************)
C20_LogoutNeverAborts ==
  \A i \in SessionIds :
    /\ pc[i] # "panicked"
    /\ (Len(replies[i]) >= 3 /\ UserUsable(replies[i][3])) =>
         /\ Len(session[i][1].access_token) >= 9
         /\ Len(requests[i]) = 4


(***************************************************************************)
(* C19: in a run of main whose login succeeded, logout is called on the    *)
(* session only after the command has finished, at most once, and exactly  *)
(* once by the time main returns or the command has finished and main goes *)
(* on, whether the command returned Ok or Err; in a run whose login        *)
(* failed, the command and logout never run.                               *)
(***************************************************************************)
C19_MainState ==
  \A i \in SessionIds :
    /\ logouts[i] <= 1
    /\ logouts[i] = 1 => (login_res[i].ok /\ ~IsNoResult(cmd_res[i]))
    /\ ~IsNoResult(cmd_res[i]) => login_res[i].ok
    \* the command has finished and logout is not yet called: it is next
    /\ (~IsNoResult(cmd_res[i]) /\ logouts[i] = 0) =>
         /\ life[i] = "Active"
         /\ pc[i] = "login_done"
         /\ IsNoResult(main_res[i])
    /\ (~IsNoResult(main_res[i]) /\ login_res[i].ok) => logouts[i] = 1
    /\ LoginFailed(i) => (IsNoResult(cmd_res[i]) /\ logouts[i] = 0)

C19_LogoutStep ==
  \A i \in SessionIds :
    logouts[i]' # logouts[i] =>
      /\ ~IsNoResult(cmd_res[i])
      /\ requests[i]' =
           Append(requests[i],
                  [method |-> "GET", prefix |-> "sys",
                   path |-> <<"user", session[i][1].user_id>>, data |-> <<>>,
                   access_token |-> <<session[i][1].access_token>>,
                   query |-> <<>>,
                   headers |-> << <<"accessToken",
                                    [to_string |-> session[i][1].access_token]>> >>])

\* C19: main calls logout exactly once after the command, and never when
\* login failed
C19_LogoutAfterCommand == []C19_MainState /\ [][C19_LogoutStep]_vars

\* one run returned after a failed command and its logout, another returned
\* the Err of a failed login
C19_Witness ==
  /\ ~IsNoResult(main_res[1]) /\ login_res[1].ok /\ ~cmd_res[1].ok
  /\ logouts[1] = 1
  /\ ~IsNoResult(main_res[2]) /\ LoginFailed(2) /\ logouts[2] = 0


(***************************************************************************)
(* C21: a page fetch is sent and awaited only while the buffer is empty;   *)
(* the items yielded are at all times the first items of the fetched       *)
(* pages, in order; when a fetch fails every item of every page fetched    *)
(* before has been yielded, nothing is left in the buffer, and the error   *)
(* item is the last thing the stream yields.                               *)
(***************************************************************************)
C21_NothingLost ==
  \A s \in StreamIds :
    /\ phase[s] = "fetching" => buffer[s] = <<>>
    /\ Len(yielded[s]) <= Len(Flatten(PagesOf(s)))
    /\ yielded[s] = SubSeq(Flatten(PagesOf(s)), 1, Len(yielded[s]))
    /\ errs[s] >= 1 =>
         /\ buffer[s] = <<>>
         /\ yielded[s] = Flatten(PagesOf(s))

C21_ErrorStep ==
  \A s \in StreamIds :
    /\ FetchStarts(s) => buffer[s] = <<>>
    /\ errs'[s] > errs[s] =>
         /\ yielded[s] = Flatten(PagesOf(s))
         /\ yielded'[s] = yielded[s]
    /\ errs[s] >= 1 => (yielded'[s] = yielded[s] /\ errs'[s] = errs[s])

\* C21: a failed page fetch loses and reorders no item fetched before it
C21_FailureKeepsItems == []C21_NothingLost /\ [][C21_ErrorStep]_vars

\* the page [A, B] was fetched and yielded whole, then the second fetch failed
C21_Witness ==
  /\ errs[1] = 1
  /\ Len(answers[1]) = 2
  /\ yielded[1] = <<"A", "B">>
  /\ lastPoll[1] = "err"

====
